---- MODULE Spec2Model ----
(***************************************************************************)
(* Model of the Binance Futures testnet trading bot (src/trading_bot.py):  *)
(* the BasicBot facade over the exchange client, and the interactive       *)
(* command loop of main().  One loop iteration is one action.  The         *)
(* exchange client is the environment: every client call either succeeds,  *)
(* raises BinanceAPIException, or raises another Exception.                *)
(***************************************************************************)
EXTENDS Integers, Sequences, FiniteSets, TLC

VARIABLES
    pc,        \* "start" | "prompt" | "done" (break) | "exit1" (sys.exit(1)) | "facade"
    event,     \* the last step: "construct" | "validate" | "line" | "eof" | "interrupt" | "call"
    bot,       \* the BasicBot object's fields
    exch,      \* the exchange: the next order id and the ids of the orders placed
    command,   \* the tokens of the line read in the last iteration
    calls,     \* the facade methods invoked in the last iteration, in order
    sent,      \* the requests handed to the exchange client in the last iteration
    resp,      \* the outcome of each of those requests
    result,    \* what the facade method returned to its caller
    out,       \* what the last iteration printed
    logged,    \* the log records the last iteration appended
    memo       \* an earlier iteration's command, responses, requests and output

vars == <<pc, event, bot, exch, command, calls, sent, resp, result, out, logged, memo>>

(***************************************************************************)
(* Bounds of the model.                                                    *)
(***************************************************************************)
\* The exchange accepts orders while it has issued fewer than MaxOrderId ids.
MaxOrderId == 2

(***************************************************************************)
(* Python values.                                                          *)
(***************************************************************************)
\* {} : the empty dict.
EmptyDict == [k \in {} |-> 0]

\* 'key' in d
HasKey(d, key) == key \in DOMAIN d

\* d.get(key, default)
DictGet(d, key, default) == IF key \in DOMAIN d THEN d[key] ELSE default

\* None
None == "None"

\* str.lower() on the tokens the model feeds to the loop.
Lower(t) ==
    CASE t = "BALANCE" -> "balance"
      [] t = "Quit" -> "quit"
      [] t = "BUY" -> "buy"
      [] t = "SELL" -> "sell"
      [] t = "BTCUSDT" -> "btcusdt"
      [] OTHER -> t

\* str.upper() on the tokens the model feeds to the loop.
Upper(t) ==
    CASE t = "btcusdt" -> "BTCUSDT"
      [] t = "ethusdt" -> "ETHUSDT"
      [] t = "buy" -> "BUY"
      [] t = "sell" -> "SELL"
      [] t = "hold" -> "HOLD"
      [] t = "x" -> "X"
      [] OTHER -> t

\* Mutant: a token that is no number is taken as a number.
ParsesFloatLenient(t) == t \in {"1", "2", "0.5", "x"}

\* float(t) succeeds (otherwise it raises ValueError).
ParsesFloat(t) == t \in {"1", "2", "0.5"}

\* Mutant: the token is converted with float() where int() is meant.
ParsesIntAsFloat(t) == t \in {"1", "2", "0.5"}

\* int(t) succeeds (otherwise it raises ValueError).
ParsesInt(t) == t \in {"1", "2"}

\* float(t), in tenths.
FloatVal(t) ==
    CASE t = "1" -> 10
      [] t = "2" -> 20
      [] t = "0.5" -> 5
      [] OTHER -> 0

\* int(t)
IntVal(t) ==
    CASE t = "1" -> 1
      [] t = "2" -> 2
      [] OTHER -> 0

\* A log record.
Log(level, msg) == [level |-> level, msg |-> msg]

(***************************************************************************)
(* The exchange client (binance.client.Client), the environment.           *)
(***************************************************************************)
\* How a client call can end.
Outcomes == {"ok", "api_error", "error"}

\* str(e) of the exception a failed call raises.
ErrStr(o) == IF o = "api_error" THEN "APIError" ELSE "ConnectionError"

Request(api, params) == [api |-> api, params |-> params]

\* The exchange can serve the request: it rejects an order with an invalid side
\* or beyond its capacity, and a query or cancel of an order it does not hold.
CanServe(ex, req) ==
    CASE req.api = "futures_create_order" ->
            /\ ex.nextId <= MaxOrderId
            /\ req.params.side \in {"BUY", "SELL"}
            /\ req.params.symbol = "BTCUSDT"
      [] req.api = "futures_get_order" -> req.params.orderId \in 1..(ex.nextId - 1)
      [] req.api = "futures_cancel_order" -> req.params.orderId \in ex.open
      [] req.api = "futures_change_leverage" -> req.params.symbol = "BTCUSDT"
      [] req.api = "futures_symbol_ticker" -> req.params.symbol = "BTCUSDT"
      [] OTHER -> TRUE

\* The outcome the caller sees when the environment offers outcome o.
Effective(ex, req, o) ==
    IF o = "ok" /\ ~CanServe(ex, req) THEN "api_error" ELSE o

\* The payload of a successful call.
Payload(ex, req) ==
    CASE req.api = "futures_time" -> [serverTime |-> 1]
      [] req.api = "futures_account" ->
            [totalWalletBalance |-> "1", availableBalance |-> "0.5",
             assets |-> <<[asset |-> "USDT", walletBalance |-> "1",
                           unrealizedProfit |-> "0", marginBalance |-> "1",
                           maintMargin |-> "0", initialMargin |-> "0",
                           positionInitialMargin |-> "0",
                           openOrderInitialMargin |-> "0"],
                          [asset |-> "BNB", walletBalance |-> "0",
                           unrealizedProfit |-> "0", marginBalance |-> "0",
                           maintMargin |-> "0", initialMargin |-> "0",
                           positionInitialMargin |-> "0",
                           openOrderInitialMargin |-> "0"]>>]
      [] req.api = "futures_exchange_info" ->
            [symbols |-> <<[symbol |-> "BTCUSDT", status |-> "TRADING"]>>]
      [] req.api = "futures_create_order" ->
            [orderId |-> ex.nextId, symbol |-> req.params.symbol,
             side |-> req.params.side, type |-> req.params.type, status |-> "NEW"]
      [] req.api = "futures_get_order" ->
            [orderId |-> req.params.orderId,
             status |-> IF req.params.orderId \in ex.open THEN "NEW" ELSE "CANCELED"]
      [] req.api = "futures_cancel_order" ->
            [orderId |-> req.params.orderId, status |-> "CANCELED"]
      [] req.api = "futures_symbol_ticker" ->
            [symbol |-> req.params.symbol, price |-> "2"]
      [] req.api = "futures_position_information" ->
            <<[symbol |-> "BTCUSDT",
               positionAmt |-> IF ex.open = {} THEN "0" ELSE "1",
               entryPrice |-> "2", markPrice |-> "2", unRealizedProfit |-> "0",
               percentage |-> "0", positionSide |-> "BOTH"]>>
      [] req.api = "futures_change_leverage" ->
            [symbol |-> req.params.symbol, leverage |-> req.params.leverage]
      [] OTHER -> EmptyDict

\* The exchange after a successful call.
Served(ex, req) ==
    CASE req.api = "futures_create_order" ->
            [nextId |-> ex.nextId + 1, open |-> ex.open \cup {ex.nextId}]
      [] req.api = "futures_cancel_order" ->
            [nextId |-> ex.nextId, open |-> ex.open \ {req.params.orderId}]
      [] OTHER -> ex

\* What a client call that ended with outcome e hands back.
ClientReturn(ex, req, e) ==
    [ok |-> e = "ok",
     outcome |-> e,
     payload |-> IF e = "ok" THEN Payload(ex, req) ELSE EmptyDict,
     exch |-> IF e = "ok" THEN Served(ex, req) ELSE ex]

\* self.client.<api>(**params) with the environment offering outcome o.
ClientCall(ex, req, o) == ClientReturn(ex, req, Effective(ex, req, o))

(***************************************************************************)
(* The bot facade (class BasicBot).  A method's effect: what it returns,   *)
(* the facade methods entered, the requests sent and their responses, the  *)
(* log records appended, and the exchange and the object afterwards.       *)
(* rs is the sequence of outcomes the environment offers to the method's   *)
(* client calls, in order.  Each method is written as its client call      *)
(* handed to the rest of its body.                                         *)
(***************************************************************************)
\* A facade method entered directly by the caller (depth 0).
Entered(name) == <<[method |-> name, depth |-> 0]>>

\* The facade methods a facade method entered itself.
Nested(cs) == [i \in DOMAIN cs |-> [method |-> cs[i].method, depth |-> cs[i].depth + 1]]

Effect(ret, cs, reqs, resps, logs, ex, self) ==
    [ret |-> ret, calls |-> cs, sent |-> reqs, resp |-> resps, logged |-> logs,
     exch |-> ex, bot |-> self]

\* BasicBot(api_key, api_secret, testnet)
BasicBot(api_key, api_secret, testnet) ==
    [api_key |-> api_key, api_secret |-> api_secret, testnet |-> testnet,
     client |-> "Client"]

\* Mutant: a request that failed is sent once more.
ExchangedRetried(req, c) ==
    [ok |-> c.ok, outcome |-> c.outcome, payload |-> c.payload, exch |-> c.exch,
     sent |-> IF c.ok THEN <<req>> ELSE <<req, req>>,
     resp |-> IF c.ok
              THEN <<[outcome |-> c.outcome, payload |-> c.payload]>>
              ELSE <<[outcome |-> c.outcome, payload |-> c.payload],
                     [outcome |-> c.outcome, payload |-> c.payload]>>]

\* The request as the facade sees it: what was sent and what came back.
Exchanged(req, c) ==
    [ok |-> c.ok, outcome |-> c.outcome, payload |-> c.payload, exch |-> c.exch,
     sent |-> <<req>>,
     resp |-> <<[outcome |-> c.outcome, payload |-> c.payload]>>]

\* self.client.<api>(...): without a client handle the attribute access raises
\* and nothing is sent.
SelfCall(self, ex, req, o) ==
    IF self.client = None
    THEN [ok |-> FALSE, outcome |-> "error", payload |-> EmptyDict, exch |-> ex,
          sent |-> <<>>, resp |-> <<>>]
    ELSE Exchanged(req, ClientCall(ex, req, o))

\* Mutant: the account request is sent even when the time request failed.
ValidateReturnBothAlways(self, t, a) ==
    IF ~t.ok \/ ~a.ok
    THEN Effect(FALSE, Entered("validate_connection"), t.sent \o a.sent,
                t.resp \o a.resp,
                <<Log("ERROR", "Connection validation failed")>>, a.exch, self)
    ELSE Effect(TRUE, Entered("validate_connection"), t.sent \o a.sent,
                t.resp \o a.resp,
                <<Log("INFO", "Futures server time"),
                  Log("INFO", "Futures API connection validated successfully"),
                  Log("INFO", "Total wallet balance")>>, a.exch, self)

\* validate_connection after futures_time (t) and futures_account (a).
ValidateReturn(self, t, a) ==
    IF ~t.ok
    THEN Effect(FALSE, Entered("validate_connection"), t.sent, t.resp,
                <<Log("ERROR", "Connection validation failed")>>, t.exch, self)
    ELSE IF ~a.ok
    THEN Effect(FALSE, Entered("validate_connection"), t.sent \o a.sent, t.resp \o a.resp,
                <<Log("INFO", "Futures server time"),
                  Log("ERROR", "Connection validation failed")>>, a.exch, self)
    ELSE Effect(TRUE, Entered("validate_connection"), t.sent \o a.sent, t.resp \o a.resp,
                <<Log("INFO", "Futures server time"),
                  Log("INFO", "Futures API connection validated successfully"),
                  Log("INFO", "Total wallet balance")>>, a.exch, self)

ValidateAfterTime(self, rs, t) ==
    ValidateReturn(self, t,
                   SelfCall(self, t.exch, Request("futures_account", EmptyDict), rs[2]))

validate_connection(self, ex, rs) ==
    ValidateAfterTime(self, rs,
                      SelfCall(self, ex, Request("futures_time", EmptyDict), rs[1]))

\* The account totals get_futures_balance converts to float.
BalanceKeys ==
    {"totalWalletBalance", "totalUnrealizedProfit", "totalMarginBalance",
     "totalPositionInitialMargin", "totalOpenOrderInitialMargin",
     "availableBalance", "maxWithdrawAmount"}

\* The assets dict: one entry per listed asset with a positive wallet balance.
HeldAssets(listed) ==
    [n \in {listed[i].asset : i \in {j \in DOMAIN listed :
                                        FloatVal(listed[j].walletBalance) > 0}} |->
        LET i == CHOOSE j \in DOMAIN listed : listed[j].asset = n
        IN  [walletBalance |-> FloatVal(listed[i].walletBalance),
             unrealizedProfit |-> FloatVal(listed[i].unrealizedProfit),
             marginBalance |-> FloatVal(listed[i].marginBalance),
             maintMargin |-> FloatVal(listed[i].maintMargin),
             initialMargin |-> FloatVal(listed[i].initialMargin),
             positionInitialMargin |-> FloatVal(listed[i].positionInitialMargin),
             openOrderInitialMargin |-> FloatVal(listed[i].openOrderInitialMargin)]]

BalanceReturn(self, c) ==
    IF c.ok
    THEN Effect([k \in BalanceKeys |-> FloatVal(DictGet(c.payload, k, "0"))]
                    @@ [assets |-> HeldAssets(DictGet(c.payload, "assets", <<>>))],
                Entered("get_futures_balance"), c.sent, c.resp,
                <<Log("INFO", "Futures balance retrieved")>>, c.exch, self)
    ELSE Effect(EmptyDict, Entered("get_futures_balance"), c.sent, c.resp,
                <<Log("ERROR", "Error getting futures balance")>>, c.exch, self)

get_futures_balance(self, ex, rs) ==
    BalanceReturn(self, SelfCall(self, ex, Request("futures_account", EmptyDict), rs[1]))

\* The indices of the listed symbols equal to symbol.
SymbolHits(listed, symbol) == {i \in DOMAIN listed : listed[i].symbol = symbol}

SymbolInfoReturn(self, symbol, c) ==
    IF ~c.ok
    THEN Effect(EmptyDict, Entered("get_symbol_info"), c.sent, c.resp,
                <<Log("ERROR", "Error getting futures symbol info")>>, c.exch, self)
    ELSE IF SymbolHits(c.payload.symbols, symbol) # {}
    THEN Effect(c.payload.symbols[CHOOSE i \in SymbolHits(c.payload.symbols, symbol) :
                    \A j \in SymbolHits(c.payload.symbols, symbol) : i <= j],
                Entered("get_symbol_info"), c.sent, c.resp,
                <<Log("INFO", "Futures symbol info")>>, c.exch, self)
    ELSE Effect(EmptyDict, Entered("get_symbol_info"), c.sent, c.resp,
                <<Log("WARNING", "Futures symbol not found")>>, c.exch, self)

get_symbol_info(self, ex, symbol, rs) ==
    SymbolInfoReturn(self, symbol,
                     SelfCall(self, ex, Request("futures_exchange_info", EmptyDict), rs[1]))

\* The end of an order placer: log and return the order, or log the error and
\* return an error payload (BinanceAPIException and Exception are caught apart).
OrderReturn(self, name, what, c) ==
    IF c.ok
    THEN Effect(c.payload, Entered(name), c.sent, c.resp,
                <<Log("INFO", "Placing futures " \o what \o " order"),
                  Log("INFO", "Futures " \o what \o " order placed successfully")>>,
                c.exch, self)
    ELSE IF c.outcome = "api_error"
    THEN Effect([error |-> ErrStr(c.outcome)], Entered(name), c.sent, c.resp,
                <<Log("INFO", "Placing futures " \o what \o " order"),
                  Log("ERROR", "Binance API error placing futures " \o what \o " order")>>,
                c.exch, self)
    ELSE Effect([error |-> ErrStr(c.outcome)], Entered(name), c.sent, c.resp,
                <<Log("INFO", "Placing futures " \o what \o " order"),
                  Log("ERROR", "Error placing futures " \o what \o " order")>>,
                c.exch, self)

\* if reduce_only: order_params['reduceOnly'] = 'true'
OrderParams(params, reduce_only) ==
    IF reduce_only THEN params @@ [reduceOnly |-> "true"] ELSE params

place_market_order(self, ex, symbol, side, quantity, reduce_only, rs) ==
    OrderReturn(self, "place_market_order", "market",
        SelfCall(self, ex,
                 Request("futures_create_order",
                         OrderParams([symbol |-> symbol, side |-> side,
                                      type |-> "MARKET", quantity |-> quantity],
                                     reduce_only)),
                 rs[1]))

place_limit_order(self, ex, symbol, side, quantity, price, reduce_only, rs) ==
    OrderReturn(self, "place_limit_order", "limit",
        SelfCall(self, ex,
                 Request("futures_create_order",
                         OrderParams([symbol |-> symbol, side |-> side,
                                      type |-> "LIMIT", quantity |-> quantity,
                                      price |-> price, timeInForce |-> "GTC"],
                                     reduce_only)),
                 rs[1]))

place_stop_limit_order(self, ex, symbol, side, quantity, price, stop_price, reduce_only, rs) ==
    OrderReturn(self, "place_stop_limit_order", "stop-limit",
        SelfCall(self, ex,
                 Request("futures_create_order",
                         OrderParams([symbol |-> symbol, side |-> side,
                                      type |-> "STOP", quantity |-> quantity,
                                      price |-> price, stopPrice |-> stop_price,
                                      timeInForce |-> "GTC"],
                                     reduce_only)),
                 rs[1]))

\* Mutant: when the stop leg fails the accepted limit order is cancelled.
OcoReturnWithRollback(limit_order, stop_order) ==
    IF HasKey(stop_order.ret, "error")
    THEN Effect([error |-> stop_order.ret["error"]],
                Entered("place_oco_order") \o Nested(limit_order.calls)
                    \o Nested(stop_order.calls),
                limit_order.sent \o stop_order.sent
                    \o <<Request("futures_cancel_order",
                                 [symbol |-> limit_order.ret.symbol,
                                  orderId |-> limit_order.ret.orderId])>>,
                limit_order.resp \o stop_order.resp,
                <<Log("INFO", "Placing OCO order")>> \o limit_order.logged
                    \o stop_order.logged,
                [nextId |-> stop_order.exch.nextId,
                 open |-> stop_order.exch.open \ {limit_order.ret.orderId}],
                stop_order.bot)
    ELSE Effect([oco_simulation |-> TRUE, limit_order |-> limit_order.ret,
                 stop_order |-> stop_order.ret],
                Entered("place_oco_order") \o Nested(limit_order.calls)
                    \o Nested(stop_order.calls),
                limit_order.sent \o stop_order.sent,
                limit_order.resp \o stop_order.resp,
                <<Log("INFO", "Placing OCO order")>> \o limit_order.logged
                    \o stop_order.logged
                    \o <<Log("INFO", "OCO order simulation completed")>>,
                stop_order.exch, stop_order.bot)

\* place_oco_order once both legs have returned.
OcoReturn(limit_order, stop_order) ==
    Effect([oco_simulation |-> TRUE, limit_order |-> limit_order.ret,
            stop_order |-> stop_order.ret],
           Entered("place_oco_order") \o Nested(limit_order.calls)
               \o Nested(stop_order.calls),
           limit_order.sent \o stop_order.sent,
           limit_order.resp \o stop_order.resp,
           <<Log("INFO", "Placing OCO order")>> \o limit_order.logged
               \o stop_order.logged
               \o <<Log("INFO", "OCO order simulation completed")>>,
           stop_order.exch, stop_order.bot)

\* Mutant: the stop leg is placed whether or not the limit leg was accepted.
OcoAfterLimitBothLegs(symbol, side, quantity, stop_price, stop_limit_price, rs, limit_order) ==
    OcoReturn(limit_order,
              place_stop_limit_order(limit_order.bot, limit_order.exch, symbol,
                                     side, quantity, stop_limit_price,
                                     stop_price, FALSE, Tail(rs)))

\* place_oco_order after the limit leg: return its error payload, or place the
\* stop leg.
OcoAfterLimit(symbol, side, quantity, stop_price, stop_limit_price, rs, limit_order) ==
    IF HasKey(limit_order.ret, "error")
    THEN Effect(limit_order.ret, Entered("place_oco_order") \o Nested(limit_order.calls),
                limit_order.sent, limit_order.resp,
                <<Log("INFO", "Placing OCO order")>> \o limit_order.logged,
                limit_order.exch, limit_order.bot)
    ELSE OcoReturn(limit_order,
                   place_stop_limit_order(limit_order.bot, limit_order.exch, symbol,
                                          side, quantity, stop_limit_price,
                                          stop_price, FALSE, Tail(rs)))

place_oco_order(self, ex, symbol, side, quantity, price, stop_price, stop_limit_price, rs) ==
    OcoAfterLimit(symbol, side, quantity, stop_price, stop_limit_price, rs,
                  place_limit_order(self, ex, symbol, side, quantity, price, FALSE, rs))

\* Mutant: the error handler returns the error payload without logging it.
ForwardReturnUnlogged(self, name, okMsg, errMsg, c) ==
    IF c.ok
    THEN Effect(c.payload, Entered(name), c.sent, c.resp, <<Log("INFO", okMsg)>>,
                c.exch, self)
    ELSE Effect([error |-> ErrStr(c.outcome)], Entered(name), c.sent, c.resp,
                <<>>, c.exch, self)

\* Mutant: the error handler drops the client handle.
ForwardReturnDropsClient(self, name, okMsg, errMsg, c) ==
    IF c.ok
    THEN Effect(c.payload, Entered(name), c.sent, c.resp, <<Log("INFO", okMsg)>>,
                c.exch, self)
    ELSE Effect([error |-> ErrStr(c.outcome)], Entered(name), c.sent, c.resp,
                <<Log("ERROR", errMsg)>>, c.exch, [self EXCEPT !.client = None])

\* The end of get_order_status, cancel_order and set_leverage: log and return
\* the response, or log the error and return an error payload.
ForwardReturn(self, name, okMsg, errMsg, c) ==
    IF c.ok
    THEN Effect(c.payload, Entered(name), c.sent, c.resp, <<Log("INFO", okMsg)>>,
                c.exch, self)
    ELSE Effect([error |-> ErrStr(c.outcome)], Entered(name), c.sent, c.resp,
                <<Log("ERROR", errMsg)>>, c.exch, self)

get_order_status(self, ex, symbol, order_id, rs) ==
    ForwardReturn(self, "get_order_status", "Futures order status retrieved",
                  "Error getting futures order status",
        SelfCall(self, ex,
                 Request("futures_get_order", [symbol |-> symbol, orderId |-> order_id]),
                 rs[1]))

cancel_order(self, ex, symbol, order_id, rs) ==
    ForwardReturn(self, "cancel_order", "Futures order cancelled successfully",
                  "Error cancelling futures order",
        SelfCall(self, ex,
                 Request("futures_cancel_order",
                         [symbol |-> symbol, orderId |-> order_id]),
                 rs[1]))

PriceReturn(self, c) ==
    IF c.ok
    THEN Effect(FloatVal(c.payload.price), Entered("get_current_price"), c.sent, c.resp,
                <<Log("INFO", "Current futures price")>>, c.exch, self)
    ELSE Effect(0, Entered("get_current_price"), c.sent, c.resp,
                <<Log("ERROR", "Error getting current futures price")>>, c.exch, self)

get_current_price(self, ex, symbol, rs) ==
    PriceReturn(self,
        SelfCall(self, ex, Request("futures_symbol_ticker", [symbol |-> symbol]), rs[1]))

\* The active positions: one entry per position whose amount is not zero.
ActivePositions(positions) ==
    [s \in {positions[i].symbol : i \in {j \in DOMAIN positions :
                                         FloatVal(positions[j].positionAmt) # 0}} |->
        LET i == CHOOSE j \in DOMAIN positions : positions[j].symbol = s
        IN  [symbol |-> positions[i].symbol,
             positionAmt |-> FloatVal(positions[i].positionAmt),
             entryPrice |-> FloatVal(positions[i].entryPrice),
             markPrice |-> FloatVal(positions[i].markPrice),
             unRealizedProfit |-> FloatVal(positions[i].unRealizedProfit),
             percentage |-> FloatVal(positions[i].percentage),
             positionSide |-> positions[i].positionSide]]

PositionsReturn(self, c) ==
    IF c.ok
    THEN Effect(ActivePositions(c.payload), Entered("get_positions"), c.sent, c.resp,
                <<Log("INFO", "Active positions retrieved")>>, c.exch, self)
    ELSE Effect(EmptyDict, Entered("get_positions"), c.sent, c.resp,
                <<Log("ERROR", "Error getting positions")>>, c.exch, self)

get_positions(self, ex, rs) ==
    PositionsReturn(self,
        SelfCall(self, ex, Request("futures_position_information", EmptyDict), rs[1]))

set_leverage(self, ex, symbol, leverage, rs) ==
    ForwardReturn(self, "set_leverage", "Leverage set", "Error setting leverage",
        SelfCall(self, ex,
                 Request("futures_change_leverage",
                         [symbol |-> symbol, leverage |-> leverage]),
                 rs[1]))

(***************************************************************************)
(* The command loop of main().  One iteration: what it prints, the facade  *)
(* effect of the method it dispatched to (if any), the records main itself *)
(* logs, and where control goes next.                                      *)
(***************************************************************************)
\* No facade method was entered.
NoCall(self, ex) == Effect(None, <<>>, <<>>, <<>>, <<>>, ex, self)

Iteration(next, e, printed, mainLog) ==
    [next |-> next, e |-> e, out |-> printed, logged |-> e.logged \o mainLog]

\* print("Usage: ...") and continue
Usage(self, ex, cmd) ==
    Iteration("prompt", NoCall(self, ex), <<[kind |-> "usage", label |-> cmd]>>, <<>>)

\* Mutant: the handler at the bottom of the loop ends the loop.
MainLoopErrorBreaks(self, ex) ==
    Iteration("done", NoCall(self, ex),
              <<[kind |-> "error", label |-> "Error", error |-> "ValueError"]>>,
              <<Log("ERROR", "Error in main loop")>>)

\* A ValueError raised by float() or int(), caught at the bottom of the loop.
MainLoopError(self, ex) ==
    Iteration("prompt", NoCall(self, ex),
              <<[kind |-> "error", label |-> "Error", error |-> "ValueError"]>>,
              <<Log("ERROR", "Error in main loop")>>)

\* Mutant: an error nested under 'stop_order' is reported as a failure too.
ReportNestedError(label, e) ==
    Iteration("prompt", e,
              IF HasKey(e.ret, "error")
              THEN <<[kind |-> "failed", label |-> label, error |-> e.ret["error"]]>>
              ELSE IF HasKey(e.ret, "stop_order") /\ HasKey(e.ret["stop_order"], "error")
              THEN <<[kind |-> "failed", label |-> label,
                      error |-> e.ret["stop_order"]["error"]]>>
              ELSE <<[kind |-> "result", label |-> label, data |-> e.ret]>>,
              <<>>)

\* if 'error' in result: print(failed) else: print(result)
Report(label, e) ==
    Iteration("prompt", e,
              IF HasKey(e.ret, "error")
              THEN <<[kind |-> "failed", label |-> label, error |-> e.ret["error"]]>>
              ELSE <<[kind |-> "result", label |-> label, data |-> e.ret]>>,
              <<>>)

\* print(f"Futures Balance: {json.dumps(balance, indent=2)}")
ReportBalance(e) ==
    Iteration("prompt", e,
              <<[kind |-> "result", label |-> "Futures Balance", data |-> e.ret]>>, <<>>)

\* if positions: print(positions) else: print("No active positions")
ReportPositions(e) ==
    Iteration("prompt", e,
              IF e.ret # EmptyDict
              THEN <<[kind |-> "result", label |-> "Positions", data |-> e.ret]>>
              ELSE <<[kind |-> "empty", label |-> "No active positions"]>>,
              <<>>)

\* print(f"Current price for {symbol}: {price}")
ReportPrice(symbol, e) ==
    Iteration("prompt", e,
              <<[kind |-> "price", label |-> "Current price", symbol |-> symbol,
                 price |-> e.ret]>>, <<>>)

\* Mutant: the length check is off by one.
TooFewOffByOne(cmdline, n) == Len(cmdline) < n - 1

\* if len(command) < n
TooFew(cmdline, n) == Len(cmdline) < n

\* Mutant: the tokens are indexed one position too low.
ArgOffByOne(cmdline, i) ==
    IF i - 1 \in DOMAIN cmdline THEN cmdline[i - 1] ELSE "IndexError"

\* command[i]; past the end it raises IndexError, which no conversion accepts.
Arg(cmdline, i) == IF i \in DOMAIN cmdline THEN cmdline[i] ELSE "IndexError"

\* The branch of the loop body for the lower-cased command word cmd.
Dispatch(self, ex, cmd, cmdline, rs) ==
    CASE cmd = "quit" ->
            Iteration("done", NoCall(self, ex),
                      <<[kind |-> "goodbye", label |-> "Goodbye!"]>>, <<>>)
      [] cmd = "balance" -> ReportBalance(get_futures_balance(self, ex, rs))
      [] cmd = "positions" -> ReportPositions(get_positions(self, ex, rs))
      [] cmd = "price" ->
            IF TooFew(cmdline, 2) THEN Usage(self, ex, "price")
            ELSE ReportPrice(Upper(Arg(cmdline, 2)),
                             get_current_price(self, ex, Upper(Arg(cmdline, 2)), rs))
      [] cmd = "market" ->
            IF TooFew(cmdline, 4) THEN Usage(self, ex, "market")
            ELSE IF ~ParsesFloat(Arg(cmdline, 4)) THEN MainLoopError(self, ex)
            ELSE Report("Market order",
                        place_market_order(self, ex, Upper(Arg(cmdline, 2)),
                                           Upper(Arg(cmdline, 3)), FloatVal(Arg(cmdline, 4)),
                                           FALSE, rs))
      [] cmd = "limit" ->
            IF TooFew(cmdline, 5) THEN Usage(self, ex, "limit")
            ELSE IF ~(ParsesFloat(Arg(cmdline, 4)) /\ ParsesFloat(Arg(cmdline, 5)))
            THEN MainLoopError(self, ex)
            ELSE Report("Limit order",
                        place_limit_order(self, ex, Upper(Arg(cmdline, 2)),
                                          Upper(Arg(cmdline, 3)), FloatVal(Arg(cmdline, 4)),
                                          FloatVal(Arg(cmdline, 5)), FALSE, rs))
      [] cmd = "stop" ->
            IF TooFew(cmdline, 6) THEN Usage(self, ex, "stop")
            ELSE IF ~(/\ ParsesFloat(Arg(cmdline, 4)) /\ ParsesFloat(Arg(cmdline, 5))
                      /\ ParsesFloat(Arg(cmdline, 6)))
            THEN MainLoopError(self, ex)
            ELSE Report("Stop-limit order",
                        place_stop_limit_order(self, ex, Upper(Arg(cmdline, 2)),
                                               Upper(Arg(cmdline, 3)), FloatVal(Arg(cmdline, 4)),
                                               FloatVal(Arg(cmdline, 5)),
                                               FloatVal(Arg(cmdline, 6)), FALSE, rs))
      [] cmd = "oco" ->
            IF TooFew(cmdline, 7) THEN Usage(self, ex, "oco")
            ELSE IF ~(/\ ParsesFloat(Arg(cmdline, 4)) /\ ParsesFloat(Arg(cmdline, 5))
                      /\ ParsesFloat(Arg(cmdline, 6)) /\ ParsesFloat(Arg(cmdline, 7)))
            THEN MainLoopError(self, ex)
            ELSE Report("OCO order",
                        place_oco_order(self, ex, Upper(Arg(cmdline, 2)),
                                        Upper(Arg(cmdline, 3)), FloatVal(Arg(cmdline, 4)),
                                        FloatVal(Arg(cmdline, 5)), FloatVal(Arg(cmdline, 6)),
                                        FloatVal(Arg(cmdline, 7)), rs))
      [] cmd = "status" ->
            IF TooFew(cmdline, 3) THEN Usage(self, ex, "status")
            ELSE IF ~ParsesInt(Arg(cmdline, 3)) THEN MainLoopError(self, ex)
            ELSE Report("Order status",
                        get_order_status(self, ex, Upper(Arg(cmdline, 2)),
                                         IntVal(Arg(cmdline, 3)), rs))
      [] cmd = "cancel" ->
            IF TooFew(cmdline, 3) THEN Usage(self, ex, "cancel")
            ELSE IF ~ParsesInt(Arg(cmdline, 3)) THEN MainLoopError(self, ex)
            ELSE Report("Cancel",
                        cancel_order(self, ex, Upper(Arg(cmdline, 2)),
                                     IntVal(Arg(cmdline, 3)), rs))
      [] cmd = "leverage" ->
            IF TooFew(cmdline, 3) THEN Usage(self, ex, "leverage")
            ELSE IF ~ParsesInt(Arg(cmdline, 3)) THEN MainLoopError(self, ex)
            ELSE Report("Leverage",
                        set_leverage(self, ex, Upper(Arg(cmdline, 2)),
                                     IntVal(Arg(cmdline, 3)), rs))
      [] OTHER ->
            Iteration("prompt", NoCall(self, ex),
                      <<[kind |-> "unknown", label |-> "Unknown command"]>>, <<>>)

\* The body of the while loop for the tokens cmdline of the line read.
LoopBody(self, ex, cmdline, rs) ==
    IF cmdline = <<>> THEN Iteration("prompt", NoCall(self, ex), <<>>, <<>>)
    ELSE Dispatch(self, ex, Lower(cmdline[1]), cmdline, rs)

(***************************************************************************)
(* The lines typed at the prompt.                                          *)
(***************************************************************************)
Symbols == {"btcusdt"}
Sides == {"buy", "hold"}
Numbers == {"1", "x"}
OrderIds == {"1", "2", "x"}
Leverages == {"2", "0.5"}

\* The sequences that take their i-th element from sets[i].
RECURSIVE Product(_)
Product(sets) ==
    IF sets = <<>> THEN {<<>>}
    ELSE {<<h>> \o t : h \in Head(sets), t \in Product(Tail(sets))}

\* The command word followed by any prefix of a full argument list.
Lines(word, sets) ==
    UNION {{<<word>> \o a : a \in Product(SubSeq(sets, 1, n))} : n \in 0..Len(sets)}

BalanceLines == {<<"balance">>, <<"BALANCE">>, <<"balance", "x">>}
PositionsLines == {<<"positions">>}
QuitLines == {<<"quit">>, <<"Quit">>}
UnknownLines == {<<"help">>, <<"buy", "btcusdt">>}
PriceLines == Lines("price", <<Symbols \cup {"ethusdt"}>>)
MarketLines ==
    Lines("market", <<Symbols, Sides, Numbers>>)
        \cup {<<"market", "btcusdt", "buy", "1", "x">>}
LimitLines == Lines("limit", <<Symbols, Sides, Numbers, Numbers>>)
StopLines == Lines("stop", <<Symbols, Sides, Numbers, Numbers, Numbers>>)
OcoLines ==
    Lines("oco", <<Symbols, Sides, Numbers, Numbers, Numbers, Numbers>>)
        \cup {<<"oco", "btcusdt", "buy", "1", "2", "0.5", "1">>}
StatusLines == Lines("status", <<Symbols, OrderIds>>)
CancelLines == Lines("cancel", <<Symbols, OrderIds>>)
LeverageLines == Lines("leverage", <<Symbols, Leverages>>)

\* The outcomes the environment offers to the client calls of one iteration.
OneCall == {<<o, "ok">> : o \in Outcomes}
TwoCalls == {<<o1, o2>> : o1 \in Outcomes, o2 \in Outcomes}
NoCalls == {<<"ok", "ok">>}

(***************************************************************************)
(* The program.                                                            *)
(***************************************************************************)
\* Nothing remembered yet.
NoMemo ==
    [set |-> FALSE, fresh |-> FALSE, command |-> <<>>, resp |-> <<>>, sent |-> <<>>,
     out |-> <<>>]

\* parser.parse_args(); bot = BasicBot(args.api_key, args.api_secret, args.testnet)
Construct ==
    /\ bot = BasicBot("key", "secret", TRUE)
    /\ exch = [nextId |-> 1, open |-> {}]
    /\ command = <<>>
    /\ calls = <<>>
    /\ sent = <<>>
    /\ resp = <<>>
    /\ result = None
    /\ out = <<>>
    /\ logged = <<Log("INFO", "BasicBot initialized")>>
    /\ memo = NoMemo

Init == pc = "start" /\ event = "construct" /\ Construct

\* The state after a facade method with effect e has returned.
Returned(e) ==
    /\ bot' = e.bot
    /\ exch' = e.exch
    /\ calls' = e.calls
    /\ sent' = e.sent
    /\ resp' = e.resp
    /\ result' = e.ret

\* Mutant: the loop is entered whatever validate_connection returned.
ValidatedEntersAnyway(e) ==
    /\ Returned(e)
    /\ event' = "validate"
    /\ command' = <<>>
    /\ pc' = "prompt"
    /\ out' = <<[kind |-> "banner", label |-> "Commands"]>>
    /\ logged' = e.logged

\* main once validate_connection has returned e: exit with status 1 or show
\* the banner and enter the loop.
Validated(e) ==
    /\ Returned(e)
    /\ event' = "validate"
    /\ command' = <<>>
    /\ IF e.ret
       THEN /\ pc' = "prompt"
            /\ out' = <<[kind |-> "banner", label |-> "Commands"]>>
            /\ logged' = e.logged
       ELSE /\ pc' = "exit1"
            /\ out' = <<[kind |-> "error", label |-> "Connection failed"]>>
            /\ logged' = e.logged \o
                    <<Log("ERROR", "Failed to connect to Binance Futures API. Exiting.")>>

\* if not bot.validate_connection(): ... sys.exit(1)
ValidateConnection ==
    /\ pc = "start"
    /\ \E rs \in TwoCalls : Validated(validate_connection(bot, exch, rs))
    /\ UNCHANGED memo

\* The state after the iteration it on the line cmdline.
Iterated(cmdline, it) ==
    /\ Returned(it.e)
    /\ event' = "line"
    /\ command' = cmdline
    /\ out' = it.out
    /\ logged' = it.logged
    /\ pc' = it.next

\* One iteration of the while loop on one of `lines`.
ReadAndRun(lines, offers) ==
    /\ pc = "prompt"
    /\ \E cmdline \in lines, rs \in offers :
        Iterated(cmdline, LoopBody(bot, exch, cmdline, rs))

CmdEmpty == ReadAndRun({<<>>}, NoCalls) /\ UNCHANGED memo
CmdQuit == ReadAndRun(QuitLines, NoCalls) /\ UNCHANGED memo
CmdBalance == ReadAndRun(BalanceLines, OneCall) /\ UNCHANGED memo
CmdPositions == ReadAndRun(PositionsLines, OneCall) /\ UNCHANGED memo
CmdPrice == ReadAndRun(PriceLines, OneCall) /\ UNCHANGED memo
CmdMarket == ReadAndRun(MarketLines, OneCall) /\ UNCHANGED memo
CmdLimit == ReadAndRun(LimitLines, OneCall) /\ UNCHANGED memo
CmdStop == ReadAndRun(StopLines, OneCall) /\ UNCHANGED memo
CmdOco == ReadAndRun(OcoLines, TwoCalls) /\ UNCHANGED memo
CmdStatus == ReadAndRun(StatusLines, OneCall) /\ UNCHANGED memo
CmdCancel == ReadAndRun(CancelLines, OneCall) /\ UNCHANGED memo
CmdLeverage == ReadAndRun(LeverageLines, OneCall) /\ UNCHANGED memo
CmdUnknown == ReadAndRun(UnknownLines, NoCalls) /\ UNCHANGED memo

\* input() raises an Exception (EOFError at end of input): logged, printed,
\* and the loop goes round again.
InputError ==
    /\ pc = "prompt"
    /\ Returned(NoCall(bot, exch))
    /\ event' = "eof"
    /\ command' = <<>>
    /\ out' = <<[kind |-> "error", label |-> "Error", error |-> "EOFError"]>>
    /\ logged' = <<Log("ERROR", "Error in main loop")>>
    /\ pc' = "prompt"
    /\ UNCHANGED memo

\* Ctrl-C while the loop waits at the prompt: print Goodbye and break.
KeyboardInterrupt ==
    /\ pc = "prompt"
    /\ Returned(NoCall(bot, exch))
    /\ event' = "interrupt"
    /\ command' = <<>>
    /\ out' = <<[kind |-> "goodbye", label |-> "Goodbye!"]>>
    /\ logged' = <<>>
    /\ pc' = "done"
    /\ UNCHANGED memo

Next ==
    \/ ValidateConnection
    \/ CmdEmpty
    \/ CmdQuit
    \/ CmdBalance
    \/ CmdPositions
    \/ CmdPrice
    \/ CmdMarket
    \/ CmdLimit
    \/ CmdStop
    \/ CmdOco
    \/ CmdStatus
    \/ CmdCancel
    \/ CmdLeverage
    \/ CmdUnknown
    \/ InputError
    \/ KeyboardInterrupt

Spec == Init /\ [][Next]_vars

(***************************************************************************)
(* The facade used directly: a caller holding a BasicBot invokes any of    *)
(* its public methods with any arguments.                                  *)
(***************************************************************************)
ApiSymbols == {"BTCUSDT", "ETHUSDT"}
ApiSides == {"BUY", "HOLD"}
ApiOrderIds == 1..MaxOrderId

FacadeInit == pc = "facade" /\ event = "construct" /\ Construct

\* The state after a direct call with effect e has returned.
Called(e) ==
    /\ Returned(e)
    /\ event' = "call"
    /\ pc' = "facade"
    /\ command' = <<>>
    /\ out' = <<>>
    /\ logged' = e.logged
    /\ UNCHANGED memo

CallValidateConnection ==
    pc = "facade" /\ \E rs \in TwoCalls : Called(validate_connection(bot, exch, rs))

CallGetFuturesBalance ==
    pc = "facade" /\ \E rs \in OneCall : Called(get_futures_balance(bot, exch, rs))

CallGetSymbolInfo ==
    pc = "facade" /\ \E rs \in OneCall, symbol \in ApiSymbols :
        Called(get_symbol_info(bot, exch, symbol, rs))

CallGetCurrentPrice ==
    pc = "facade" /\ \E rs \in OneCall, symbol \in ApiSymbols :
        Called(get_current_price(bot, exch, symbol, rs))

CallGetPositions ==
    pc = "facade" /\ \E rs \in OneCall : Called(get_positions(bot, exch, rs))

CallPlaceMarketOrder ==
    pc = "facade" /\ \E rs \in OneCall, symbol \in ApiSymbols, side \in ApiSides,
                        reduce_only \in BOOLEAN :
        Called(place_market_order(bot, exch, symbol, side, 10, reduce_only, rs))

CallPlaceLimitOrder ==
    pc = "facade" /\ \E rs \in OneCall, symbol \in ApiSymbols, side \in ApiSides,
                        reduce_only \in BOOLEAN :
        Called(place_limit_order(bot, exch, symbol, side, 10, 20, reduce_only, rs))

CallPlaceStopLimitOrder ==
    pc = "facade" /\ \E rs \in OneCall, symbol \in ApiSymbols, side \in ApiSides,
                        reduce_only \in BOOLEAN :
        Called(place_stop_limit_order(bot, exch, symbol, side, 10, 20, 5,
                                      reduce_only, rs))

CallPlaceOcoOrder ==
    pc = "facade" /\ \E rs \in TwoCalls, symbol \in ApiSymbols, side \in ApiSides :
        Called(place_oco_order(bot, exch, symbol, side, 10, 20, 5, 5, rs))

CallGetOrderStatus ==
    pc = "facade" /\ \E rs \in OneCall, symbol \in ApiSymbols, id \in ApiOrderIds :
        Called(get_order_status(bot, exch, symbol, id, rs))

CallCancelOrder ==
    pc = "facade" /\ \E rs \in OneCall, symbol \in ApiSymbols, id \in ApiOrderIds :
        Called(cancel_order(bot, exch, symbol, id, rs))

CallSetLeverage ==
    pc = "facade" /\ \E rs \in OneCall, symbol \in ApiSymbols :
        Called(set_leverage(bot, exch, symbol, 2, rs))

FacadeNext ==
    \/ CallValidateConnection
    \/ CallGetFuturesBalance
    \/ CallGetSymbolInfo
    \/ CallGetCurrentPrice
    \/ CallGetPositions
    \/ CallPlaceMarketOrder
    \/ CallPlaceLimitOrder
    \/ CallPlaceStopLimitOrder
    \/ CallPlaceOcoOrder
    \/ CallGetOrderStatus
    \/ CallCancelOrder
    \/ CallSetLeverage

FacadeSpec == FacadeInit /\ [][FacadeNext]_vars

(***************************************************************************)
(* The program run on a few lines, with one earlier iteration remembered:  *)
(* the line it read, the responses it got, what it sent and what it        *)
(* printed.                                                                *)
(***************************************************************************)
ReplayLines ==
    {<<"balance">>, <<"positions">>, <<"price", "btcusdt">>,
     <<"market", "btcusdt", "buy", "1">>, <<"market", "btcusdt", "hold", "1">>,
     <<"limit", "btcusdt", "buy", "1", "1">>,
     <<"stop", "btcusdt", "buy", "1", "1", "x">>,
     <<"oco", "btcusdt", "buy", "1", "1", "1", "1">>,
     <<"oco", "btcusdt", "buy", "1", "1", "1">>,
     <<"status", "btcusdt", "1">>, <<"cancel", "btcusdt", "1">>,
     <<"leverage", "btcusdt", "2">>, <<"help">>, <<>>}

\* One iteration on one of those lines.
ReplayRun ==
    \/ ReadAndRun(ReplayLines \ OcoLines, OneCall)
    \/ ReadAndRun(ReplayLines \cap OcoLines, TwoCalls)

\* An iteration that is remembered.
Remember ==
    /\ ReplayRun
    /\ memo' = [set |-> TRUE, fresh |-> TRUE, command |-> command', resp |-> resp',
                sent |-> sent', out |-> out']

\* An iteration after the remembered one.
Replay ==
    /\ ReplayRun
    /\ memo' = [memo EXCEPT !.fresh = FALSE]

ReplayNext == ValidateConnection \/ Remember \/ Replay

ReplaySpec == Init /\ [][ReplayNext]_vars

(***************************************************************************)
(* What the properties speak of.                                           *)
(***************************************************************************)
\* The last step was a loop iteration that read a non-empty line.
ReadCommand == event = "line" /\ command # <<>>

\* The lower-cased command word of the line read.
Word == Lower(command[1])

\* The commands that take arguments, and the tokens each one's usage
\* message asks for (the command word included).
ArgCommands ==
    {"price", "market", "limit", "stop", "oco", "status", "cancel", "leverage"}

Required(w) ==
    CASE w = "price" -> 2
      [] w = "market" -> 4
      [] w = "limit" -> 5
      [] w = "stop" -> 6
      [] w = "oco" -> 7
      [] w \in {"status", "cancel", "leverage"} -> 3
      [] OTHER -> 1

\* The positions of a command's numeric tokens.
NumericAt(w) ==
    CASE w = "market" -> {4}
      [] w = "limit" -> {4, 5}
      [] w = "stop" -> {4, 5, 6}
      [] w = "oco" -> {4, 5, 6, 7}
      [] w \in {"status", "cancel", "leverage"} -> {3}
      [] OTHER -> {}

\* The token is not a number of the kind the command needs: a decimal for an
\* order's quantity and prices, an integer for an order id or a leverage.
NotNumeric(w, t) ==
    IF w \in {"status", "cancel", "leverage"} THEN t \in {"x", "0.5"} ELSE t = "x"

\* The line read has a bad numeric token at position i.
BadTokenAt(i) ==
    /\ ReadCommand
    /\ Len(command) >= Required(Word)
    /\ i \in NumericAt(Word)
    /\ NotNumeric(Word, command[i])

\* The facade methods the loop itself entered in the last step.
Dispatched == SelectSeq(calls, LAMBDA c : c.depth = 0)

\* Some request of the last step failed.
SomeRequestFailed == \E i \in DOMAIN resp : resp[i].outcome # "ok"

(***************************************************************************)
(* Properties.                                                             *)
(***************************************************************************)
\* C1: a command that takes arguments and is given fewer tokens than it
\* requires prints that command's usage message, enters no facade method and
\* sends nothing to the exchange client.
C1_UnderSpecifiedIsRejected ==
    (ReadCommand /\ Word \in ArgCommands /\ Len(command) < Required(Word))
        => /\ out = <<[kind |-> "usage", label |-> Word]>>
           /\ calls = <<>>
           /\ sent = <<>>

C1_Witness ==
    /\ ReadCommand
    /\ command = <<"oco", "btcusdt", "buy", "1", "1", "1">>
    /\ out = <<[kind |-> "usage", label |-> "oco"]>>

\* C2: when any one numeric token of a command fails to parse, whichever
\* position holds it, the error is reported by the loop (printed and logged)
\* and no facade method is entered and nothing is sent.
C2_BadNumberIsLocalError ==
    (\E i \in 1..7 : BadTokenAt(i))
        => /\ out = <<[kind |-> "error", label |-> "Error", error |-> "ValueError"]>>
           /\ logged = <<Log("ERROR", "Error in main loop")>>
           /\ calls = <<>>
           /\ sent = <<>>

C2_Witness ==
    /\ BadTokenAt(7)
    /\ \A i \in 4..6 : ~BadTokenAt(i)
    /\ out[1].kind = "error"

\* A command failed: it was rejected by the loop, or a request it sent failed.
CommandFailed ==
    /\ ReadCommand
    /\ \/ \E i \in DOMAIN out : out[i].kind \in {"usage", "error", "unknown", "failed"}
       \/ SomeRequestFailed

\* C3: after a command that failed (wrong argument count, non-numeric field,
\* unknown command word, or an error from the exchange client) the loop has
\* not exited: control is back at the prompt.
C3_FailedCommandReturnsToPrompt == CommandFailed => pc = "prompt"

C3_Witness ==
    /\ CommandFailed
    /\ Word = "market"
    /\ Len(resp) = 1
    /\ resp[1].outcome = "error"
    /\ pc = "prompt"

\* The result is an error payload: a dict with an 'error' entry.  For
\* validate_connection, which returns a bool, False is taken as its error
\* result; the float get_current_price returns has no entries.
CarriesError(m) ==
    CASE m = "validate_connection" -> result = FALSE
      [] m = "get_current_price" -> FALSE
      [] OTHER -> HasKey(result, "error")

\* C4 (as claimed): a facade operation whose exchange-client call failed
\* returns an error payload, a result carrying an 'error' entry.
C4_FailureReturnsErrorPayload ==
    (Len(calls) = 1 /\ SomeRequestFailed) => CarriesError(calls[1].method)

\* C5: no request is sent twice within one command, no request follows a
\* request that failed, and the bot is left as it was constructed.
C5_NothingRetried ==
    /\ bot = BasicBot("key", "secret", TRUE)
    /\ Len(resp) = Len(sent)
    /\ \A i \in DOMAIN sent : \A j \in DOMAIN sent : i < j => sent[i] # sent[j]
    /\ \A i \in DOMAIN resp : resp[i].outcome # "ok" => i = Len(sent)

C5_Witness ==
    /\ ReadCommand
    /\ Word = "limit"
    /\ Len(sent) = 1
    /\ resp[1].outcome = "api_error"
    /\ pc = "prompt"

\* C6 (as claimed): an order command whose side token, upper-cased, is
\* neither BUY nor SELL sends nothing to the exchange client.
C6_BadSideIsNotForwarded ==
    (/\ ReadCommand
     /\ Word \in {"market", "limit", "stop", "oco"}
     /\ Len(command) >= 3
     /\ Upper(command[3]) \notin {"BUY", "SELL"})
        => sent = <<>>

\* C7 (as claimed): every iteration that read a command makes exactly one
\* facade call.
C7_ExactlyOneFacadeCall == ReadCommand => Len(calls) = 1

\* The facade method each command word stands for.
MethodOf(w) ==
    CASE w = "balance" -> "get_futures_balance"
      [] w = "positions" -> "get_positions"
      [] w = "price" -> "get_current_price"
      [] w = "market" -> "place_market_order"
      [] w = "limit" -> "place_limit_order"
      [] w = "stop" -> "place_stop_limit_order"
      [] w = "oco" -> "place_oco_order"
      [] w = "status" -> "get_order_status"
      [] w = "cancel" -> "cancel_order"
      [] w = "leverage" -> "set_leverage"
      [] OTHER -> "none"

\* The line read is a recognised command other than quit, with the tokens it
\* requires and numeric fields that parse.
WellFormed ==
    /\ ReadCommand
    /\ MethodOf(Word) # "none"
    /\ Len(command) >= Required(Word)
    /\ \A i \in NumericAt(Word) : ~NotNumeric(Word, command[i])

\* C7 (amended): the loop itself enters at most one facade method per
\* iteration: the one its command word stands for when the line is well
\* formed, and none otherwise; only place_oco_order enters further facade
\* methods.
C7_AtMostOneDispatch ==
    event = "line" =>
        /\ Dispatched = IF WellFormed THEN Entered(MethodOf(Word)) ELSE <<>>
        /\ calls # <<>> => calls[1].depth = 0
        /\ Len(calls) > 1 => calls[1].method = "place_oco_order"

C7_Witness ==
    /\ WellFormed
    /\ Word = "oco"
    /\ Len(calls) = 3
    /\ Len(Dispatched) = 1

\* C8 (as claimed): one invocation of a facade method results in exactly one
\* request to the exchange client.
C8_OneRequestPerCall == (event = "call" /\ calls # <<>>) => Len(sent) = 1

\* C8 (amended): one invocation of a facade method other than
\* validate_connection and place_oco_order sends exactly one request;
\* those two send a second request exactly when the first one succeeded.
C8_OneOrTwoRequestsPerCall ==
    (event = "call" /\ calls # <<>>) =>
        IF calls[1].method \in {"validate_connection", "place_oco_order"}
        THEN Len(sent) = IF resp[1].outcome = "ok" THEN 2 ELSE 1
        ELSE Len(sent) = 1

C8_Witness ==
    /\ event = "call"
    /\ calls[1].method = "place_oco_order"
    /\ Len(sent) = 2
    /\ resp[1].outcome = "ok"
    /\ resp[2].outcome = "error"

\* The last command was an oco whose limit order was accepted and whose stop
\* order failed.
OcoHalfPlaced ==
    /\ ReadCommand
    /\ Word = "oco"
    /\ Len(resp) = 2
    /\ resp[1].outcome = "ok"
    /\ resp[2].outcome # "ok"

\* C9: when the limit order of an oco was accepted and its stop order failed,
\* no cancel request was sent and the limit order is still placed on the
\* exchange when the command ends.
C9_OcoHasNoRollback ==
    OcoHalfPlaced =>
        /\ \A i \in DOMAIN sent : sent[i].api = "futures_create_order"
        /\ Len(sent) = 2
        /\ resp[1].payload.orderId \in exch.open

C9_Witness == OcoHalfPlaced /\ pc = "prompt" /\ exch.open # {}

\* C10: the bot's fields stay as constructed, and an iteration that reads the
\* same line and gets the same responses as a remembered iteration sends the
\* same requests and prints the same output.
C10_NoStateBetweenCommands ==
    /\ bot = BasicBot("key", "secret", TRUE)
    /\ (memo.set /\ event = "line" /\ memo.command = command /\ memo.resp = resp)
        => (memo.sent = sent /\ memo.out = out)

C10_Witness ==
    /\ memo.set
    /\ ~memo.fresh
    /\ event = "line"
    /\ memo.command = command
    /\ memo.resp = resp
    /\ command = <<"market", "btcusdt", "buy", "1">>
    /\ resp[1].outcome = "error"
    /\ exch.open # {}

\* The order commands.
OrderWords == {"market", "limit", "stop", "oco"}

\* The line read is an order command with numeric fields that parse, as far
\* as it goes.
OrderLine ==
    /\ ReadCommand
    /\ Word \in OrderWords
    /\ \A i \in NumericAt(Word) \cap DOMAIN command : ~NotNumeric(Word, command[i])

\* C11 (as claimed): an oco command given symbol, side, quantity, price and
\* stopPrice (five arguments) with numeric fields that parse is dispatched to
\* the facade and is not rejected with a usage message.
C11_OcoWithStopPriceIsDispatched ==
    (OrderLine /\ Word = "oco" /\ Len(command) = 6)
        => /\ Dispatched = Entered("place_oco_order")
           /\ \A i \in DOMAIN out : out[i].kind # "usage"

\* The first request of the last step carries the order the line describes.
FirstRequestIsTheOrder ==
    /\ sent # <<>>
    /\ sent[1].api = "futures_create_order"
    /\ sent[1].params.symbol = Upper(command[2])
    /\ sent[1].params.side = Upper(command[3])
    /\ sent[1].params.quantity = FloatVal(command[4])
    /\ Word # "market" => sent[1].params.price = FloatVal(command[5])
    /\ Word = "stop" => sent[1].params.stopPrice = FloatVal(command[6])

\* The second request of an oco is its stop order: triggered at the fifth
\* argument (stop_price), priced at the sixth (stop_limit_price).
SecondRequestIsTheStopLeg ==
    Len(sent) = 2 =>
        /\ sent[2].params.type = "STOP"
        /\ sent[2].params.stopPrice = FloatVal(command[6])
        /\ sent[2].params.price = FloatVal(command[7])

\* C11 (amended): market takes symbol, side and quantity, limit also price,
\* stop also price and stop price, and oco price, stop price and stop limit
\* price.  An order command with all of its arguments and numeric fields that
\* parse is dispatched to its facade method with those arguments and prints
\* no usage message; with fewer arguments (an oco with only five) it is
\* rejected with its usage message.
C11_OrderCommandsTakeTheirArguments ==
    OrderLine =>
        IF Len(command) >= Required(Word)
        THEN /\ Dispatched = Entered(MethodOf(Word))
             /\ \A i \in DOMAIN out : out[i].kind # "usage"
             /\ FirstRequestIsTheOrder
             /\ Word = "oco" => SecondRequestIsTheStopLeg
        ELSE /\ out = <<[kind |-> "usage", label |-> Word]>>
             /\ Dispatched = <<>>

C11_Witness ==
    /\ OrderLine
    /\ command = <<"oco", "btcusdt", "buy", "1", "2", "0.5", "1">>
    /\ Dispatched = Entered("place_oco_order")
    /\ Len(sent) = 2
    /\ sent[1].params.price = 20
    /\ sent[2].params.stopPrice = 5
    /\ sent[2].params.price = 10

\* The records of the given level the last step appended to the log.
Records(level) == SelectSeq(logged, LAMBDA l : l.level = level)

\* The requests of the last step that ended with an outcome in os.
Responses(os) == {i \in DOMAIN resp : resp[i].outcome \in os}

\* C12: a command that reached the exchange client appended at least one log
\* record by the time the prompt is shown again: an info record for a client
\* call that succeeded and an error record for one that failed (one error
\* record per failed call, at least one info record per successful call); a
\* command rejected in the loop for a non-numeric field appended an error
\* record too.
C12_RequestsAndErrorsAreLogged ==
    event = "line" =>
        /\ sent # <<>> => logged # <<>>
        /\ Responses({"ok"}) # {} => Records("INFO") # <<>>
        /\ Responses({"api_error", "error"}) # {} => Records("ERROR") # <<>>
        /\ sent # <<>> =>
                /\ Len(Records("ERROR")) = Cardinality(Responses({"api_error", "error"}))
                /\ Len(Records("INFO")) >= Cardinality(Responses({"ok"}))
        /\ (\E i \in 1..7 : BadTokenAt(i)) => Records("ERROR") # <<>>

C12_Witness ==
    /\ ReadCommand
    /\ Word = "status"
    /\ Len(sent) = 1
    /\ resp[1].outcome = "error"
    /\ logged = <<Log("ERROR", "Error getting futures order status")>>
    /\ pc = "prompt"

\* The last step ran place_oco_order, from the loop or from a caller.
OcoRan == calls # <<>> /\ calls[1].method = "place_oco_order"

\* C13: place_oco_order submits the limit leg first and the stop leg only
\* after the limit leg was accepted: when the limit leg fails, no stop order
\* request is sent, place_stop_limit_order is not entered, and the result is
\* the limit leg's error payload.
C13_StopLegOnlyAfterAcceptedLimit ==
    OcoRan =>
        /\ Len(calls) >= 2
        /\ calls[2].method = "place_limit_order"
        /\ sent # <<>>
        /\ sent[1].params.type = "LIMIT"
        /\ \A i \in DOMAIN sent :
                sent[i].params.type = "STOP" => (i = 2 /\ resp[1].outcome = "ok")
        /\ IF resp[1].outcome = "ok"
           THEN /\ Len(sent) = 2
                /\ sent[2].params.type = "STOP"
                /\ calls[3].method = "place_stop_limit_order"
           ELSE /\ Len(sent) = 1
                /\ Len(calls) = 2
                /\ result = [error |-> ErrStr(resp[1].outcome)]

C13_Witness ==
    /\ OcoRan
    /\ ReadCommand
    /\ Len(sent) = 1
    /\ resp[1].outcome = "api_error"
    /\ result = [error |-> "APIError"]
    /\ Len(calls) = 2

\* The last command was reported to the user as failed.
ReportedFailed == \E i \in DOMAIN out : out[i].kind = "failed"

\* C14: an oco command is reported as failed exactly when its limit order
\* failed.  When the limit order was accepted and the stop order failed, the
\* result has no top-level 'error' entry, the stop order's error payload sits
\* under 'stop_order', and the loop prints the result as an OCO order result.
C14_OcoFailureIsTheLimitLegs ==
    (ReadCommand /\ OcoRan) =>
        /\ ReportedFailed <=> resp[1].outcome # "ok"
        /\ ReportedFailed =>
                out = <<[kind |-> "failed", label |-> "OCO order",
                         error |-> ErrStr(resp[1].outcome)]>>
        /\ OcoHalfPlaced =>
                /\ ~HasKey(result, "error")
                /\ result["oco_simulation"] = TRUE
                /\ result["limit_order"] = resp[1].payload
                /\ result["stop_order"] = [error |-> ErrStr(resp[2].outcome)]
                /\ out = <<[kind |-> "result", label |-> "OCO order", data |-> result]>>

C14_Witness ==
    /\ OcoHalfPlaced
    /\ OcoRan
    /\ ~ReportedFailed
    /\ result["stop_order"] = [error |-> "ConnectionError"]
    /\ out[1].kind = "result"
    /\ out[1].label = "OCO order"

\* The line read is a quit command.
QuitRead == ReadCommand /\ Word = "quit"

\* No request of the last step placed an order.
NoOrderRequest == \A i \in DOMAIN sent : sent[i].api # "futures_create_order"

\* One step of main, from the point of view of the loop's life:
\*  - the first thing main does is validate the connection, and the prompt is
\*    reached from outside the loop only by a validation that returned True;
\*  - a validation that returned False exits with status 1, having read no
\*    command and requested no order;
\*  - a line is read, or input fails or is interrupted, only at the prompt;
\*  - from the prompt the loop ends exactly on a quit command or a keyboard
\*    interrupt, and every other step is back at the prompt;
\*  - after the exit or the end of the loop nothing happens any more.
LoopStep ==
    /\ pc = "start" =>
            /\ event' = "validate"
            /\ command' = <<>>
            /\ pc' = IF result' = TRUE THEN "prompt" ELSE "exit1"
            /\ NoOrderRequest'
    /\ (pc # "prompt" /\ pc' = "prompt") =>
            (pc = "start" /\ event' = "validate" /\ result' = TRUE)
    /\ event' \in {"line", "eof", "interrupt"} => pc = "prompt"
    /\ pc = "prompt" =>
            /\ pc' \in {"prompt", "done"}
            /\ event' \in {"line", "eof", "interrupt"}
            /\ pc' = "done" <=> (event' = "interrupt" \/ QuitRead')
    /\ pc \notin {"start", "prompt"} => FALSE

\* C15: the command loop is entered only after validate_connection returned
\* True; when it returned False the process exits with status 1, no command
\* is read and no order is requested, then or later.  Once entered, the loop
\* ends only on a quit command or a keyboard interrupt: an empty line, an
\* unknown command, an exception raised by input() (end of input) or while a
\* command is processed all lead back to the prompt.
C15_LoopEntryAndExit == [][LoopStep]_vars

C15_Witness ==
    /\ event = "eof"
    /\ pc = "prompt"
    /\ out = <<[kind |-> "error", label |-> "Error", error |-> "EOFError"]>>
    /\ logged = <<Log("ERROR", "Error in main loop")>>

====
